---------------------------- MODULE Spec2Model ----------------------------
(***************************************************************************)
(* Strand-bias statistics engine and strandedness classifier of resolveS.  *)
(*                                                                         *)
(* Four programs are modelled:                                             *)
(*   "B"  src/check_strand.py                   (unsigned diff + F/R)      *)
(*   "A"  src/bin/check_strand.py               (signed diff)              *)
(*   "S1" src/bin/check_strand_step1M.py        (imports "A")              *)
(*   "SC" src/bin/check_strand_step1M_withCount.py (imports "A")           *)
(*                                                                         *)
(* Python floats are modelled as exact rationals n/d (d > 0, lowest terms) *)
(* plus the IEEE specials NaN, +inf and -inf.  Results of transcendental   *)
(* functions (sqrt, asin, log2, erfc, lgamma, exp) are kept as terms over  *)
(* their exact argument; what is modelled of them is their domain (the     *)
(* arguments on which Python's math module raises ValueError) and their    *)
(* value at the few points where it is rational.                           *)
(***************************************************************************)
EXTENDS Integers, Sequences, FiniteSets, TLC

(***************************************************************************)
(* Float values                                                            *)
(***************************************************************************)
Abs(i) == IF i < 0 THEN -i ELSE i

RECURSIVE GCD(_, _)
GCD(a, b) == IF b = 0 THEN a ELSE GCD(b, a % b)

\* the rational n/d (d # 0) in lowest terms with a positive denominator
Num(n, d) ==
    LET g == GCD(Abs(n), Abs(d))
        s == IF d < 0 THEN -1 ELSE 1
    IN  [k |-> "num", n |-> s * (n \div g), d |-> Abs(d) \div g, f |-> ""]

FromInt(i) == [k |-> "num", n |-> i, d |-> 1, f |-> ""]
NaN        == [k |-> "nan", n |-> 0, d |-> 1, f |-> ""]
PosInf     == [k |-> "inf", n |-> 1, d |-> 1, f |-> ""]
NegInf     == [k |-> "inf", n |-> -1, d |-> 1, f |-> ""]
Zero       == FromInt(0)
One        == FromInt(1)
Half       == Num(1, 2)

IsNaN(x) == x.k = "nan"
IsInf(x) == x.k = "inf"
IsNum(x) == x.k = "num"

\* a/b < c/d for a, c >= 0 and b, d > 0, by comparing the continued
\* fraction expansions (no product is formed, so no 32-bit overflow)
RECURSIVE PosLess(_, _, _, _)
PosLess(a, b, c, d) ==
    LET qa == a \div b
        qc == c \div d
        ra == a % b
        rc == c % d
    IN  IF qa # qc THEN qa < qc
        ELSE IF rc = 0 THEN FALSE
        ELSE IF ra = 0 THEN TRUE
        ELSE PosLess(d, rc, b, ra)

RatLess(x, y) ==
    IF x.n < 0
    THEN IF y.n < 0 THEN PosLess(-(y.n), y.d, -(x.n), x.d) ELSE TRUE
    ELSE IF y.n < 0 THEN FALSE ELSE PosLess(x.n, x.d, y.n, y.d)

\* Python's x < y on floats: every comparison with NaN is False
FLt(x, y) ==
    IF IsNaN(x) \/ IsNaN(y) THEN FALSE
    ELSE IF IsInf(x) THEN x.n < 0 /\ ~(IsInf(y) /\ y.n < 0)
    ELSE IF IsInf(y) THEN y.n > 0
    ELSE RatLess(x, y)

FEq(x, y) == ~IsNaN(x) /\ ~IsNaN(y) /\ x = y
FLe(x, y) == FLt(x, y) \/ FEq(x, y)
FGt(x, y) == FLt(y, x)

\* Python's abs() on a float
FAbs(x) ==
    IF IsNaN(x) THEN NaN
    ELSE IF IsInf(x) THEN PosInf
    ELSE [k |-> "num", n |-> Abs(x.n), d |-> x.d, f |-> ""]

\* float arithmetic on finite operands (the code applies it to nothing else:
\* every NaN-producing case returns before any arithmetic); common factors
\* are cancelled before multiplying to keep the intermediate integers small
\* (the sum is formed in steps that keep every intermediate integer small)
\* h * s / l for h prime to l
Scaled(h, s, l, g) ==
    [k |-> "num", n |-> h * (s \div g), d |-> l \div g, f |-> ""]
\* h * s / l
Scale(h, s, l, g) == Scaled(h \div g, s, l \div g, GCD(Abs(s), l \div g))
\* (a + b) / l for a, b # 0 with the common factor h
SumBy(a, b, l, h) ==
    IF (a \div h) + (b \div h) = 0 THEN Zero
    ELSE Scale(h, (a \div h) + (b \div h), l, GCD(h, l))
\* (a + b) / l
SumOver(a, b, l) ==
    IF a = 0 THEN Num(b, l)
    ELSE IF b = 0 THEN Num(a, l)
    ELSE SumBy(a, b, l, GCD(Abs(a), Abs(b)))
\* x + y, g the common factor of the denominators
Sum(x, y, g) ==
    SumOver(x.n * (y.d \div g), y.n * (x.d \div g), (x.d \div g) * y.d)

\* both operands are evaluated once, then added
FAdd(x, y) ==
    CHOOSE z \in {Sum(u, v, GCD(u.d, v.d)) : u \in {x}, v \in {y}} : TRUE
FNeg(x)    == [k |-> "num", n |-> -(x.n), d |-> x.d, f |-> ""]
FSub(x, y) == FAdd(x, FNeg(y))
FMul(x, y) ==
    LET g1 == GCD(Abs(x.n), y.d)
        g2 == GCD(Abs(y.n), x.d)
    IN  Num((x.n \div g1) * (y.n \div g2), (x.d \div g2) * (y.d \div g1))
\* x / y for y # 0
FDiv(x, y) ==
    FMul(x, [k |-> "num", n |-> IF y.n < 0 THEN -(y.d) ELSE y.d,
             d |-> Abs(y.n), f |-> ""])
FSq(x)     == FMul(x, x)

\* the value of a transcendental expression: rational where it is known to
\* be, otherwise the term f(arg)
Term(f, arg) == [k |-> "term", n |-> arg.n, d |-> arg.d, f |-> f]
Sqrt(x) == IF x = Zero THEN Zero ELSE IF x = One THEN One ELSE Term("sqrt", x)
Log2(x) == IF x = One THEN Zero ELSE Term("log2", x)
Erfc(x) == IF x = Zero THEN One ELSE Term("erfc", x)

(***************************************************************************)
(* Results: a returned value or a raised exception                         *)
(***************************************************************************)
Ret(v)     == [ok |-> TRUE, v |-> v]
Raise(exc) == [ok |-> FALSE, v |-> exc]

\* an exception: its class, its message and the line number it carries
\* (0 when the message has none)
Exc(type, msg, line) == [type |-> type, msg |-> msg, line |-> line]
MathDomainError  == Exc("ValueError", "math domain error", 0)
ZeroDivision     == Exc("ZeroDivisionError", "division by zero", 0)

(***************************************************************************)
(* Classifier                                                              *)
(***************************************************************************)
MinTotal    == 3000
UnstrandedA == Num(7156908, 100000000)

\* Variant B with the gate written as total < 3000
determine_strandedness_gate_lt(total, relative_diff, f2r_ratio) ==
    IF total < MinTotal THEN "insufficient-data"
    ELSE IF FLe(relative_diff, One) THEN "fr-unstranded"
    ELSE IF FGt(f2r_ratio, One) THEN "fr-firststrand"
    ELSE "fr-secondstrand"

\* Variant B with the unit threshold written as relative_diff < 1
determine_strandedness_diff_lt(total, relative_diff, f2r_ratio) ==
    IF total <= MinTotal THEN "insufficient-data"
    ELSE IF FLt(relative_diff, One) THEN "fr-unstranded"
    ELSE IF FGt(f2r_ratio, One) THEN "fr-firststrand"
    ELSE "fr-secondstrand"

\* Variant B with the ratio test the wrong way round
determine_strandedness_ratio_lt(total, relative_diff, f2r_ratio) ==
    IF total <= MinTotal THEN "insufficient-data"
    ELSE IF FLe(relative_diff, One) THEN "fr-unstranded"
    ELSE IF FLt(f2r_ratio, One) THEN "fr-firststrand"
    ELSE "fr-secondstrand"

\* src/check_strand.py (Variant B)
determine_strandedness(total, relative_diff, f2r_ratio) ==
    IF total <= MinTotal THEN "insufficient-data"
    ELSE IF FLe(relative_diff, One) THEN "fr-unstranded"
    ELSE IF FGt(f2r_ratio, One) THEN "fr-firststrand"
    ELSE "fr-secondstrand"

\* Variant A with the near-zero threshold written as a strict comparison
bin_determine_strandedness_strict(total, relative_diff) ==
    IF total <= MinTotal THEN "insufficient-data"
    ELSE IF FLt(FAbs(relative_diff), UnstrandedA) THEN "fr-unstranded"
    ELSE IF FGt(relative_diff, Zero) THEN "fr-firststrand"
    ELSE "fr-secondstrand"

\* src/bin/check_strand.py (Variant A)
bin_determine_strandedness(total, relative_diff) ==
    IF total <= MinTotal THEN "insufficient-data"
    ELSE IF FLe(FAbs(relative_diff), UnstrandedA) THEN "fr-unstranded"
    ELSE IF FGt(relative_diff, Zero) THEN "fr-firststrand"
    ELSE "fr-secondstrand"

(***************************************************************************)
(* Metrics engine of src/check_strand.py                                   *)
(***************************************************************************)
\* compute_proportions dividing by rev without the rev > 0 test
compute_proportions_unguarded(fwd, rev) ==
    LET total == fwd + rev
    IN  IF total = 0 THEN Ret(<<Zero, Zero, NaN>>)
        ELSE IF rev = 0 THEN Raise(ZeroDivision)
        ELSE Ret(<<Num(fwd, total), Num(rev, total), Num(fwd, rev)>>)

\* compute_proportions with rev_ratio computed from fwd
compute_proportions_rev_from_fwd(fwd, rev) ==
    LET total == fwd + rev
    IN  IF total = 0 THEN Ret(<<Zero, Zero, NaN>>)
        ELSE Ret(<<Num(fwd, total), Num(fwd, total),
                   IF rev > 0 THEN Num(fwd, rev) ELSE PosInf>>)

compute_proportions(fwd, rev) ==
    LET total == fwd + rev
    IN  IF total = 0 THEN Ret(<<Zero, Zero, NaN>>)
        ELSE Ret(<<Num(fwd, total), Num(rev, total),
                   IF rev > 0 THEN Num(fwd, rev) ELSE PosInf>>)

\* (fwd + 0.5) / (rev + 0.5) = (2 fwd + 1) / (2 rev + 1); the divisor is never
\* zero for an integer rev; math.log2 raises on an argument <= 0
compute_f2r_ratio_logfc(fwd, rev) ==
    LET x == Num(2 * fwd + 1, 2 * rev + 1)
    IN  IF FLe(x, Zero) THEN Raise(MathDomainError) ELSE Ret(Log2(x))

\* compute_relative_difference dividing by the total instead of the mean
compute_relative_difference_over_total(fwd, rev) ==
    LET total == fwd + rev
    IN  IF total = 0 THEN Ret(NaN)
        ELSE Ret(FDiv(FromInt(Abs(fwd - rev)), FromInt(total)))

\* compute_relative_difference with the zero guard on rev instead of total
compute_relative_difference_rev_guard(fwd, rev) ==
    LET total == fwd + rev
        mean  == Num(total, 2)
    IN  IF rev = 0 THEN Ret(NaN)
        ELSE IF mean = Zero THEN Raise(ZeroDivision)
        ELSE Ret(FDiv(FromInt(Abs(fwd - rev)), mean))

compute_relative_difference(fwd, rev) ==
    LET total == fwd + rev
        mean  == Num(total, 2)
    IN  IF total = 0 THEN Ret(NaN)
        ELSE IF mean = Zero THEN Raise(ZeroDivision)
        ELSE Ret(FDiv(FromInt(Abs(fwd - rev)), mean))

\* compute_chi_test with the square left off the reverse term
compute_chi_test_rev_unsquared(fwd, rev) ==
    LET total    == fwd + rev
        expected == Num(total, 2)
        chi2     == FAdd(FDiv(FSq(FSub(FromInt(fwd), expected)), expected),
                         FDiv(FSub(FromInt(rev), expected), expected))
    IN  IF total = 0 THEN Ret(<<NaN, NaN>>)
        ELSE IF expected = Zero THEN Raise(ZeroDivision)
        ELSE IF FLt(chi2, Zero) THEN Raise(MathDomainError)
        ELSE Ret(<<chi2, Erfc(Sqrt(FDiv(chi2, FromInt(2))))>>)

\* compute_chi_test without the total == 0 guard
compute_chi_test_unguarded(fwd, rev) ==
    LET total    == fwd + rev
        expected == Num(total, 2)
        chi2     == FAdd(FDiv(FSq(FSub(FromInt(fwd), expected)), expected),
                         FDiv(FSq(FSub(FromInt(rev), expected)), expected))
    IN  IF total = 0 THEN Raise(ZeroDivision)
        ELSE IF FLt(chi2, Zero) THEN Raise(MathDomainError)
        ELSE Ret(<<chi2, Erfc(Sqrt(FDiv(chi2, FromInt(2))))>>)

compute_chi_test(fwd, rev) ==
    LET total    == fwd + rev
        expected == Num(total, 2)
        chi2     == FAdd(FDiv(FSq(FSub(FromInt(fwd), expected)), expected),
                         FDiv(FSq(FSub(FromInt(rev), expected)), expected))
    IN  IF total = 0 THEN Ret(<<NaN, NaN>>)
        ELSE IF expected = Zero THEN Raise(ZeroDivision)
        ELSE IF FLt(chi2, Zero) THEN Raise(MathDomainError)
        ELSE Ret(<<chi2, Erfc(Sqrt(FDiv(chi2, FromInt(2))))>>)

\* math.sqrt raises below 0, math.asin above 1
compute_cohens_h(fwd, rev) ==
    LET total      == fwd + rev
        p_observed == Num(fwd, total)
    IN  IF total = 0 THEN Ret(NaN)
        ELSE IF FLt(p_observed, Zero) THEN Raise(MathDomainError)
        ELSE IF FGt(p_observed, One) THEN Raise(MathDomainError)
        ELSE Ret(IF p_observed = Half THEN Zero
                 ELSE Term("cohens_h", p_observed))

compute_cramers_v(fwd, rev) ==
    LET total == fwd + rev
        chi   == compute_chi_test(fwd, rev)
        q     == FDiv(chi.v[1], FromInt(total))
    IN  IF total = 0 THEN Ret(NaN)
        ELSE IF ~chi.ok THEN chi
        ELSE IF FLt(q, Zero) THEN Raise(MathDomainError)
        ELSE Ret(Sqrt(q))

\* math.lgamma raises ValueError at the non-positive integers
compute_bayes_factor(fwd, rev) ==
    LET total == fwd + rev
        a     == fwd + 1
        b     == rev + 1
    IN  IF total = 0 THEN Ret(NaN)
        ELSE IF a <= 0 \/ b <= 0 \/ a + b <= 0 THEN Raise(MathDomainError)
        ELSE Ret(Term("bf01", Num(a, b)))

\* p1*(1-p1) + p2*(1-p2) with p2 = 0.5 is compared with 0 as
\* p1*(1-p1) against -1/4
compute_effect_size_epsilon(fwd, rev) ==
    LET total == fwd + rev
        p1    == Num(fwd, total)
        v1    == FMul(p1, FSub(One, p1))
    IN  IF total = 0 THEN Ret(Zero)
        ELSE IF FLt(v1, Num(-1, 4)) THEN Raise(MathDomainError)
        ELSE IF v1 = Num(-1, 4) THEN Ret(Zero)
        ELSE Ret(IF p1 = Half THEN Zero ELSE Term("epsilon", p1))

compute_hellinger_distance(fwd, rev) ==
    LET total == fwd + rev
        p_fwd == Num(fwd, total)
        p_rev == Num(rev, total)
    IN  IF total = 0 THEN Ret(Zero)
        ELSE IF FLt(p_fwd, Zero) \/ FLt(p_rev, Zero) THEN Raise(MathDomainError)
        ELSE Ret(IF p_fwd = Half THEN Zero ELSE Term("hellinger", p_fwd))

\* both proportions are raised to 1e-10 before math.log2, so its argument
\* is positive whatever the counts
compute_normalized_entropy(fwd, rev) ==
    LET total == fwd + rev
        p_fwd == Num(fwd, total)
    IN  IF total = 0 THEN Ret(Zero)
        ELSE Ret(IF p_fwd = Half THEN One ELSE Term("entropy", p_fwd))


\* the first metric that raises ends the analysis with its exception
FirstRaise(rs) ==
    LET bad == {i \in DOMAIN rs : ~rs[i].ok}
    IN  rs[CHOOSE i \in bad : \A j \in bad : i <= j]

analyze_strand_bias(fwd, rev, name) ==
    LET total == fwd + rev
        pr    == compute_proportions(fwd, rev)
        lg    == compute_f2r_ratio_logfc(fwd, rev)
        rd    == compute_relative_difference(fwd, rev)
        chi   == compute_chi_test(fwd, rev)
        ch    == compute_cohens_h(fwd, rev)
        cv    == compute_cramers_v(fwd, rev)
        bf    == compute_bayes_factor(fwd, rev)
        ep    == compute_effect_size_epsilon(fwd, rev)
        he    == compute_hellinger_distance(fwd, rev)
        en    == compute_normalized_entropy(fwd, rev)
        rs    == <<pr, lg, rd, chi, ch, cv, bf, ep, he, en>>
    IN  IF \E i \in DOMAIN rs : ~rs[i].ok THEN FirstRaise(rs)
        ELSE Ret([filename |-> name, fwd |-> fwd, rev |-> rev, total |-> total,
                  fwd_ratio |-> pr.v[1], rev_ratio |-> pr.v[2],
                  f2r_ratio |-> pr.v[3], log2_f2r |-> lg.v,
                  relative_diff |-> rd.v, chi2 |-> chi.v[1],
                  p_value |-> chi.v[2], cohens_h |-> ch.v,
                  cramers_v |-> cv.v, bayes_factor |-> bf.v,
                  epsilon |-> ep.v, hellinger |-> he.v, entropy |-> en.v,
                  strandedness |->
                      determine_strandedness(total, rd.v, pr.v[3])])

(***************************************************************************)
(* Metrics engine of src/bin/check_strand.py                               *)
(***************************************************************************)
bin_compute_proportions(fwd, rev) ==
    LET total == fwd + rev
    IN  IF total = 0 THEN Ret(<<Zero, Zero>>)
        ELSE Ret(<<Num(fwd, total), Num(rev, total)>>)

\* the signed difference with the operands of the subtraction exchanged
bin_compute_relative_difference_flipped(fwd, rev) ==
    LET total == fwd + rev
        mean  == Num(total, 2)
    IN  IF total = 0 THEN Ret(NaN)
        ELSE IF mean = Zero THEN Raise(ZeroDivision)
        ELSE Ret(FDiv(FromInt(rev - fwd), mean))

bin_compute_relative_difference(fwd, rev) ==
    LET total == fwd + rev
        mean  == Num(total, 2)
    IN  IF total = 0 THEN Ret(NaN)
        ELSE IF mean = Zero THEN Raise(ZeroDivision)
        ELSE Ret(FDiv(FromInt(fwd - rev), mean))

\* bin_compute_chi_test with the total as the expected count
bin_compute_chi_test_expected_total(fwd, rev) ==
    LET total    == fwd + rev
        expected == FromInt(total)
        chi2     == FAdd(FDiv(FSq(FSub(FromInt(fwd), expected)), expected),
                         FDiv(FSq(FSub(FromInt(rev), expected)), expected))
    IN  IF total = 0 THEN Ret(<<NaN, NaN>>)
        ELSE IF expected = Zero THEN Raise(ZeroDivision)
        ELSE IF FLt(chi2, Zero) THEN Raise(MathDomainError)
        ELSE Ret(<<chi2, Erfc(Sqrt(FDiv(chi2, FromInt(2))))>>)

bin_compute_chi_test(fwd, rev) ==
    LET total    == fwd + rev
        expected == Num(total, 2)
        chi2     == FAdd(FDiv(FSq(FSub(FromInt(fwd), expected)), expected),
                         FDiv(FSq(FSub(FromInt(rev), expected)), expected))
    IN  IF total = 0 THEN Ret(<<NaN, NaN>>)
        ELSE IF expected = Zero THEN Raise(ZeroDivision)
        ELSE IF FLt(chi2, Zero) THEN Raise(MathDomainError)
        ELSE Ret(<<chi2, Erfc(Sqrt(FDiv(chi2, FromInt(2))))>>)

\* bin_analyze_strand_bias handing the unsigned difference of
\* src/check_strand.py to the classifier
bin_analyze_strand_bias_unsigned(fwd, rev, name) ==
    LET total == fwd + rev
        pr    == bin_compute_proportions(fwd, rev)
        rd    == compute_relative_difference(fwd, rev)
        chi   == bin_compute_chi_test(fwd, rev)
        rs    == <<pr, rd, chi>>
    IN  IF \E i \in DOMAIN rs : ~rs[i].ok THEN FirstRaise(rs)
        ELSE Ret([filename |-> name, fwd |-> fwd, rev |-> rev,
                  fwd_ratio |-> pr.v[1], rev_ratio |-> pr.v[2],
                  relative_diff |-> rd.v, chi2 |-> chi.v[1],
                  p_value |-> chi.v[2],
                  strandedness |-> bin_determine_strandedness(total, rd.v)])

bin_analyze_strand_bias(fwd, rev, name) ==
    LET total == fwd + rev
        pr    == bin_compute_proportions(fwd, rev)
        rd    == bin_compute_relative_difference(fwd, rev)
        chi   == bin_compute_chi_test(fwd, rev)
        rs    == <<pr, rd, chi>>
    IN  IF \E i \in DOMAIN rs : ~rs[i].ok THEN FirstRaise(rs)
        ELSE Ret([filename |-> name, fwd |-> fwd, rev |-> rev,
                  fwd_ratio |-> pr.v[1], rev_ratio |-> pr.v[2],
                  relative_diff |-> rd.v, chi2 |-> chi.v[1],
                  p_value |-> chi.v[2],
                  strandedness |-> bin_determine_strandedness(total, rd.v)])

(***************************************************************************)
(* Count-based metrics of src/bin/check_strand_step1M_withCount.py         *)
(***************************************************************************)
compute_log2_fc(fwd, rev) ==
    LET x == Num(2 * fwd + 1, 2 * rev + 1)
    IN  IF FLe(x, Zero) THEN Raise(MathDomainError) ELSE Ret(Log2(x))

compute_chi2_test(fwd, rev) ==
    LET total    == fwd + rev
        expected == Num(total, 2)
        chi2     == FDiv(FAdd(FSq(FSub(FromInt(fwd), expected)),
                              FSq(FSub(FromInt(rev), expected))), expected)
    IN  IF total = 0 THEN Ret(<<NaN, NaN>>)
        ELSE IF expected = Zero THEN Raise(ZeroDivision)
        ELSE IF FLt(chi2, Zero) THEN Raise(MathDomainError)
        ELSE Ret(<<chi2, Erfc(Sqrt(FDiv(chi2, FromInt(2))))>>)

\* std = sqrt(n * 0.5 * 0.5); z = |fwd - n/2| / std, so z*z = (fwd-n/2)^2/(n/4)
compute_binomial_p(fwd, rev) ==
    LET n    == fwd + rev
        mean == Num(n, 2)
        var  == Num(n, 4)
        z2   == FDiv(FSq(FSub(FromInt(fwd), mean)), var)
    IN  IF n = 0 THEN Ret(NaN)
        ELSE IF FLt(var, Zero) THEN Raise(MathDomainError)
        ELSE IF Sqrt(var) = Zero THEN Ret(One)
        ELSE Ret(IF z2 = Zero THEN One ELSE Term("erfc_z_over_sqrt2", z2))

analyze_counts(fwd, rev, label) ==
    LET total == fwd + rev
        lg    == compute_log2_fc(fwd, rev)
        chi   == compute_chi2_test(fwd, rev)
        bp    == compute_binomial_p(fwd, rev)
        rd    == bin_compute_relative_difference(fwd, rev)
        rs    == <<lg, chi, bp, rd>>
    IN  IF \E i \in DOMAIN rs : ~rs[i].ok THEN FirstRaise(rs)
        ELSE Ret([reads_count |-> label, fwd |-> fwd, rev |-> rev,
                  total |-> total, diff |-> Abs(fwd - rev),
                  log2_fc |-> lg.v, chi2 |-> chi.v[1], p_value |-> chi.v[2],
                  binomial_p |-> bp.v,
                  strandedness |-> bin_determine_strandedness(total, rd.v)])


(***************************************************************************)
(* Record parser                                                           *)
(***************************************************************************)
\* a whitespace-separated field: the text of an integer literal, or other text
IntTok(v) == [int |-> TRUE, v |-> v, s |-> ""]
StrTok(t) == [int |-> FALSE, v |-> 0, s |-> t]

\* int(field)
PyInt(tok) ==
    IF tok.int THEN Ret(tok.v)
    ELSE Raise(Exc("ValueError", "invalid literal for int()", 0))

FormatError(line_num) == Exc("ValueError", "File format error", line_num + 1)
IndexError            == Exc("IndexError", "list index out of range", 0)

\* One iteration of the loop over the lines of the file: parts is the
\* stripped line split at whitespace (empty for a blank line), line_num the
\* 0-based index enumerate() gives it.  Returns the triples the iteration
\* appends to results (none or one), or raises.
read_counts_file(parts, line_num) ==
    IF Len(parts) = 0 THEN Ret(<<>>)
    ELSE IF Len(parts) < 3 THEN Raise(FormatError(line_num))
    ELSE IF ~PyInt(parts[2]).ok THEN PyInt(parts[2])
    ELSE IF ~PyInt(parts[3]).ok THEN PyInt(parts[3])
    ELSE IF Len(parts) < 7 THEN Raise(IndexError)
    ELSE Ret(<<[fwd |-> PyInt(parts[2]).v, rev |-> PyInt(parts[3]).v,
                name |-> parts[7]]>>)

bin_read_counts_file(parts, line_num) ==
    IF Len(parts) = 0 THEN Ret(<<>>)
    ELSE IF Len(parts) < 8 THEN Raise(FormatError(line_num))
    ELSE IF ~PyInt(parts[2]).ok THEN PyInt(parts[2])
    ELSE IF ~PyInt(parts[3]).ok THEN PyInt(parts[3])
    ELSE IF Len(parts) < 8 THEN Raise(IndexError)
    ELSE Ret(<<[fwd |-> PyInt(parts[2]).v, rev |-> PyInt(parts[3]).v,
                name |-> parts[8]]>>)

step1M_read_incremental_counts_file(parts, line_num) ==
    IF Len(parts) = 0 THEN Ret(<<>>)
    ELSE IF Len(parts) < 7 THEN Raise(FormatError(line_num))
    ELSE IF ~PyInt(parts[2]).ok THEN PyInt(parts[2])
    ELSE IF ~PyInt(parts[3]).ok THEN PyInt(parts[3])
    ELSE IF Len(parts) < 7 THEN Raise(IndexError)
    ELSE Ret(<<[fwd |-> PyInt(parts[2]).v, rev |-> PyInt(parts[3]).v,
                name |-> parts[7]]>>)

withCount_read_incremental_counts_file(parts, line_num) ==
    IF Len(parts) = 0 THEN Ret(<<>>)
    ELSE IF Len(parts) < 7 THEN Raise(FormatError(line_num))
    ELSE IF ~PyInt(parts[2]).ok THEN PyInt(parts[2])
    ELSE IF ~PyInt(parts[3]).ok THEN PyInt(parts[3])
    ELSE IF Len(parts) < 7 THEN Raise(IndexError)
    ELSE Ret(<<[fwd |-> PyInt(parts[2]).v, rev |-> PyInt(parts[3]).v,
                name |-> parts[7]]>>)


(***************************************************************************)
(* Report formatter                                                        *)
(***************************************************************************)
\* a table cell: the conversion applied and the value it was applied to
Cell(fmt, v) == [fmt |-> fmt, v |-> v]
HeaderRow(names) == [i \in DOMAIN names |-> Cell("text", names[i])]
AttributeError == Exc("AttributeError", "object has no attribute", 0)

\* f"{x:.6f}" if not math.isinf(x) else "Inf"
InfCell(x) == IF IsInf(x) THEN Cell("text", "Inf") ELSE Cell(".6f", x)

FullHeader(first) ==
    <<first, "Strandedness", "Fwd", "Rev", "Total", "Fwd_Ratio", "Rev_Ratio",
      "F2R_Ratio", "Log2_F2R", "Rel_Diff", "Chi2", "P_value", "Cohens_h",
      "Cramers_V", "Bayes_Factor", "Epsilon", "Hellinger", "Entropy">>

FullAttrs ==
    {"filename", "strandedness", "fwd", "rev", "total", "fwd_ratio",
     "rev_ratio", "f2r_ratio", "log2_f2r", "relative_diff", "chi2", "p_value",
     "cohens_h", "cramers_v", "bayes_factor", "epsilon", "hellinger",
     "entropy"}

FullRow(s) ==
    <<Cell("text", s.filename), Cell("text", s.strandedness),
      Cell("str", s.fwd), Cell("str", s.rev), Cell("str", s.total),
      Cell(".6f", s.fwd_ratio), Cell(".6f", s.rev_ratio),
      InfCell(s.f2r_ratio), Cell(".6f", s.log2_f2r),
      Cell(".6f", s.relative_diff), Cell(".6f", s.chi2),
      Cell(".6e", s.p_value), Cell(".6f", s.cohens_h),
      Cell(".6f", s.cramers_v), Cell(".6e", s.bayes_factor),
      Cell(".6f", s.epsilon), Cell(".6f", s.hellinger),
      Cell(".6f", s.entropy)>>

\* src/check_strand.py
format_stats_table(stats_list) ==
    IF \E i \in DOMAIN stats_list : ~(FullAttrs \subseteq DOMAIN stats_list[i])
    THEN Raise(AttributeError)
    ELSE Ret(<<HeaderRow(FullHeader("File"))>>
             \o [i \in DOMAIN stats_list |-> FullRow(stats_list[i])])

\* src/bin/check_strand_step1M.py
format_stats_table_step1M(stats_list) ==
    IF \E i \in DOMAIN stats_list : ~(FullAttrs \subseteq DOMAIN stats_list[i])
    THEN Raise(AttributeError)
    ELSE Ret(<<HeaderRow(FullHeader("ReadsCounts"))>>
             \o [i \in DOMAIN stats_list |-> FullRow(stats_list[i])])

BinRow(s) ==
    <<Cell("text", s.filename), Cell("text", s.strandedness),
      Cell("str", s.fwd), Cell("str", s.rev),
      Cell(".6f", s.fwd_ratio), Cell(".6f", s.rev_ratio),
      Cell(".6f", s.relative_diff), Cell(".6f", s.chi2),
      Cell(".6e", s.p_value)>>

\* src/bin/check_strand.py
bin_format_stats_table(stats_list) ==
    Ret(<<HeaderRow(<<"File", "Strandedness", "Fwd", "Rev", "Fwd_Ratio",
                      "Rev_Ratio", "Rel_Diff", "Chi2", "P_value">>)>>
        \o [i \in DOMAIN stats_list |-> BinRow(stats_list[i])])

CountRow(s) ==
    <<Cell("text", s.reads_count), Cell("text", s.strandedness),
      Cell("str", s.fwd), Cell("str", s.rev), Cell("str", s.total),
      Cell("str", s.diff), Cell(".4f", s.log2_fc), Cell(".2f", s.chi2),
      Cell(".2e", s.p_value), Cell(".2e", s.binomial_p)>>

\* src/bin/check_strand_step1M_withCount.py
withCount_format_stats_table(stats_list) ==
    Ret(<<HeaderRow(<<"ReadsCounts", "Strandedness", "Fwd", "Rev", "Total",
                      "Diff", "Log2_FC", "Chi2", "P_value", "Binomial_P">>)>>
        \o [i \in DOMAIN stats_list |-> CountRow(stats_list[i])])


(***************************************************************************)
(* The programs as state machines                                          *)
(***************************************************************************)
VARIABLES
    prog,        \* which program runs: "B", "A", "S1" or "SC"
    pc,          \* "loop", "read", "analyze", "format", "done", "exit1",
                 \* "crashed"; "call" and "returned" for a single function
    nfiles,      \* files of file_list already dealt with
    line_num,    \* lines of the open file already consumed
    results,     \* the parser's list for the open file
    file_data,   \* the list the parser returned
    idx,         \* position of the analysis loop in file_data
    stats_list,  \* the bundles collected so far
    printed,     \* the exceptions reported as "Error: ..." lines
    exc,         \* the exception that ended the program, if any
    out,         \* the lines of the table
    parsed,      \* every triple a parser call has returned, in order
    last,        \* the line the parser consumed in the last step, its index
                 \* and what the iteration did with it
    call,        \* a single function call: the function and its arguments
    ret          \* what that call returned or raised

vars == <<prog, pc, nfiles, line_num, results, file_data, idx, stats_list,
          printed, exc, out, parsed, last, call, ret>>

MaxFiles   == 2
MaxLines   == 2
MaxRecords == 3
MaxFields  == 8
BigCount   == 4000

Progs   == {"B", "A", "S1", "SC"}
NoExc   == Exc("", "", 0)
NoLast  == [parts |-> <<>>, line_num |-> 0, res |-> Ret(<<>>), read |-> FALSE]
NoCall  == [fn |-> "", total |-> 0, diff |-> NaN, ratio |-> NaN, fwd |-> 0,
            rev |-> 0]
NoRet   == [ok |-> TRUE, v |-> "none"]

\* the fields a count file can hold at the forward and at the reverse column
FwdTokens == {StrTok("x"), IntTok(-1), IntTok(0), IntTok(BigCount)}
RevTokens == {StrTok("x"), IntTok(0), IntTok(BigCount)}

\* a line of nf fields with ft and rt at the forward and reverse columns
Line(nf, ft, rt) ==
    [i \in 1..nf |->
        IF i = 1 THEN IntTok(BigCount)
        ELSE IF i = 2 THEN ft
        ELSE IF i = 3 THEN rt
        ELSE IF i = 7 THEN StrTok("1M")
        ELSE IF i = 8 THEN StrTok("sample.fq.gz")
        ELSE IntTok(0)]

Lines == {Line(nf, ft, rt) : nf \in 0..MaxFields, ft \in FwdTokens,
                             rt \in RevTokens}

\* which module a program's names resolve to
ParseLine(p, parts, n) ==
    CASE p = "B"  -> read_counts_file(parts, n)
      [] p = "A"  -> bin_read_counts_file(parts, n)
      [] p = "S1" -> step1M_read_incremental_counts_file(parts, n)
      [] p = "SC" -> withCount_read_incremental_counts_file(parts, n)

Analyze(p, rec) ==
    CASE p = "B"  -> analyze_strand_bias(rec.fwd, rec.rev, rec.name)
      [] p = "A"  -> bin_analyze_strand_bias(rec.fwd, rec.rev, rec.name)
      [] p = "S1" -> bin_analyze_strand_bias(rec.fwd, rec.rev, rec.name)
      [] p = "SC" -> analyze_counts(rec.fwd, rec.rev, rec.name)

Format(p, sl) ==
    CASE p = "B"  -> format_stats_table(sl)
      [] p = "A"  -> bin_format_stats_table(sl)
      [] p = "S1" -> format_stats_table_step1M(sl)
      [] p = "SC" -> withCount_format_stats_table(sl)

Init ==
    /\ prog \in Progs
    /\ pc = "loop"
    /\ nfiles = 0
    /\ line_num = 0
    /\ results = <<>>
    /\ file_data = <<>>
    /\ idx = 1
    /\ stats_list = <<>>
    /\ printed = <<>>
    /\ exc = NoExc
    /\ out = <<>>
    /\ parsed = <<>>
    /\ last = NoLast
    /\ call = NoCall
    /\ ret = NoRet

\* An exception leaves the try block.  run_input_file_lists prints
\* FileNotFoundError and ValueError and goes on with the next file; the
\* step1M mains print them and exit with status 1; anything else is not
\* caught.
Handle(e) ==
    IF e.type \in {"FileNotFoundError", "ValueError"}
    THEN /\ printed' = Append(printed, e)
         /\ exc' = exc
         /\ IF prog \in {"B", "A"}
            THEN pc' = "loop" /\ nfiles' = nfiles + 1
            ELSE pc' = "exit1" /\ nfiles' = nfiles
    ELSE /\ printed' = printed
         /\ exc' = e
         /\ pc' = "crashed"
         /\ nfiles' = nfiles

MoreFiles ==
    IF prog \in {"B", "A"} THEN nfiles < MaxFiles ELSE nfiles = 0

OpenFile ==
    /\ pc = "loop"
    /\ MoreFiles
    /\ pc' = "read"
    /\ line_num' = 0
    /\ results' = <<>>
    /\ last' = NoLast
    /\ UNCHANGED <<prog, nfiles, file_data, idx, stats_list, printed, exc,
                   out, parsed, call, ret>>

FileNotFound ==
    /\ pc = "loop"
    /\ MoreFiles
    /\ Handle(Exc("FileNotFoundError", "No such file or directory", 0))
    /\ last' = NoLast
    /\ UNCHANGED <<prog, line_num, results, file_data, idx, stats_list, out,
                   parsed, call, ret>>

ReadLine ==
    /\ pc = "read"
    /\ line_num < MaxLines
    /\ Len(parsed) + Len(results) < MaxRecords
    /\ \E parts \in Lines :
          LET r == ParseLine(prog, parts, line_num)
          IN  /\ last' = [parts |-> parts, line_num |-> line_num, res |-> r,
                          read |-> TRUE]
              /\ IF r.ok
                 THEN /\ results' = results \o r.v
                      /\ line_num' = line_num + 1
                      /\ UNCHANGED <<pc, nfiles, printed, exc>>
                 ELSE /\ Handle(r.v)
                      /\ UNCHANGED <<results, line_num>>
    /\ UNCHANGED <<prog, file_data, idx, stats_list, out, parsed, call, ret>>

EndOfFile ==
    /\ pc = "read"
    /\ file_data' = results
    /\ parsed' = parsed \o results
    /\ idx' = 1
    /\ pc' = "analyze"
    /\ last' = NoLast
    /\ UNCHANGED <<prog, nfiles, line_num, results, stats_list, printed, exc,
                   out, call, ret>>

AnalyzeRecord ==
    /\ pc = "analyze"
    /\ idx <= Len(file_data)
    /\ LET r == Analyze(prog, file_data[idx])
       IN  IF r.ok
           THEN /\ stats_list' = Append(stats_list, r.v)
                /\ idx' = idx + 1
                /\ UNCHANGED <<pc, nfiles, printed, exc>>
           ELSE /\ Handle(r.v)
                /\ UNCHANGED <<stats_list, idx>>
    /\ UNCHANGED <<prog, line_num, results, file_data, out, parsed, last,
                   call, ret>>

EndOfRecords ==
    /\ pc = "analyze"
    /\ idx > Len(file_data)
    /\ IF prog \in {"B", "A"}
       THEN pc' = "loop" /\ nfiles' = nfiles + 1
       ELSE pc' = "format" /\ nfiles' = nfiles
    /\ UNCHANGED <<prog, line_num, results, file_data, idx, stats_list,
                   printed, exc, out, parsed, last, call, ret>>

\* run_input_file_lists has gone through file_list and returns stats_list
ReturnStats ==
    /\ pc = "loop"
    /\ prog \in {"B", "A"}
    /\ pc' = "format"
    /\ last' = NoLast
    /\ UNCHANGED <<prog, nfiles, line_num, results, file_data, idx,
                   stats_list, printed, exc, out, parsed, call, ret>>

FormatTable ==
    /\ pc = "format"
    /\ LET r == Format(prog, stats_list)
       IN  IF r.ok
           THEN out' = r.v /\ pc' = "done" /\ exc' = exc
           ELSE out' = out /\ pc' = "crashed" /\ exc' = r.v
    /\ UNCHANGED <<prog, nfiles, line_num, results, file_data, idx,
                   stats_list, printed, parsed, last, call, ret>>

Next ==
    \/ OpenFile
    \/ FileNotFound
    \/ ReadLine
    \/ EndOfFile
    \/ AnalyzeRecord
    \/ EndOfRecords
    \/ ReturnStats
    \/ FormatTable

Spec == Init /\ [][Next]_vars


(***************************************************************************)
(* Single calls of the pure functions                                      *)
(***************************************************************************)
GateSpan == 5
MaxCount == 12

\* totals around the gate, floats around the two thresholds, the IEEE specials
TotalVals == ((MinTotal - GateSpan)..(MinTotal + GateSpan))
                 \cup {-1, 0, BigCount}
FloatVals ==
    {NaN, PosInf, NegInf} \cup
    {Num(n, 100000000) :
        n \in {-200000000, -100000000, -8000000, -7156909, -7156908,
               -7156907, 0, 7156907, 7156908, 7156909, 8000000, 50000000,
               100000000, 100000001, 150000000, 200000000}}
\* the counts of the example line in the comments of the parsers
ExampleFwd == 3117
ExampleRev == 37696

\* 1611 and 1612 against 1500 lie on either side of the 0.07156908 threshold,
\* 1000 against 3000 is the ratio 3 exactly
CountVals == (0..MaxCount) \cup
             {MinTotal \div 2, MinTotal \div 2 + 1, MinTotal, MinTotal + 1,
              BigCount, MinTotal \div 3, 1611, 1612, ExampleFwd, ExampleRev}

MetricFns ==
    {"compute_proportions", "compute_f2r_ratio_logfc",
     "compute_relative_difference", "compute_chi_test", "compute_cohens_h",
     "compute_cramers_v", "compute_bayes_factor",
     "compute_effect_size_epsilon", "compute_hellinger_distance",
     "compute_normalized_entropy", "bin_compute_proportions",
     "bin_compute_relative_difference", "bin_compute_chi_test",
     "compute_log2_fc", "compute_chi2_test", "compute_binomial_p"}
AnalyzeFns == {"analyze_strand_bias", "bin_analyze_strand_bias",
               "analyze_counts"}
ClassifierFns == {"determine_strandedness", "bin_determine_strandedness"}

\* a call: the function and its arguments (total, diff, ratio for the
\* classifiers, fwd and rev for the others; the arguments a function does
\* not take are left at a fixed value)
Calls ==
    {[fn |-> "determine_strandedness", total |-> t, diff |-> d, ratio |-> q,
      fwd |-> 0, rev |-> 0] :
        t \in TotalVals, d \in FloatVals, q \in FloatVals}
    \cup {[fn |-> "bin_determine_strandedness", total |-> t, diff |-> d,
           ratio |-> NaN, fwd |-> 0, rev |-> 0] :
        t \in TotalVals, d \in FloatVals}
    \cup {[fn |-> g, total |-> 0, diff |-> NaN, ratio |-> NaN,
           fwd |-> f, rev |-> r] :
        g \in MetricFns \cup AnalyzeFns, f \in CountVals, r \in CountVals}

ApplyMetric(g, fwd, rev) ==
    CASE g = "compute_proportions"             -> compute_proportions(fwd, rev)
      [] g = "compute_f2r_ratio_logfc"         -> compute_f2r_ratio_logfc(fwd, rev)
      [] g = "compute_relative_difference"     -> compute_relative_difference(fwd, rev)
      [] g = "compute_chi_test"                -> compute_chi_test(fwd, rev)
      [] g = "compute_cohens_h"                -> compute_cohens_h(fwd, rev)
      [] g = "compute_cramers_v"               -> compute_cramers_v(fwd, rev)
      [] g = "compute_bayes_factor"            -> compute_bayes_factor(fwd, rev)
      [] g = "compute_effect_size_epsilon"     -> compute_effect_size_epsilon(fwd, rev)
      [] g = "compute_hellinger_distance"      -> compute_hellinger_distance(fwd, rev)
      [] g = "compute_normalized_entropy"      -> compute_normalized_entropy(fwd, rev)
      [] g = "bin_compute_proportions"         -> bin_compute_proportions(fwd, rev)
      [] g = "bin_compute_relative_difference" -> bin_compute_relative_difference(fwd, rev)
      [] g = "bin_compute_chi_test"            -> bin_compute_chi_test(fwd, rev)
      [] g = "compute_log2_fc"                 -> compute_log2_fc(fwd, rev)
      [] g = "compute_chi2_test"               -> compute_chi2_test(fwd, rev)
      [] g = "compute_binomial_p"              -> compute_binomial_p(fwd, rev)

ApplyAnalyze(g, fwd, rev) ==
    CASE g = "analyze_strand_bias"     -> analyze_strand_bias(fwd, rev, StrTok("1M"))
      [] g = "bin_analyze_strand_bias" -> bin_analyze_strand_bias(fwd, rev, StrTok("1M"))
      [] g = "analyze_counts"          -> analyze_counts(fwd, rev, StrTok("1M"))

InitFn ==
    /\ prog = "B"
    /\ pc = "call"
    /\ nfiles = 0
    /\ line_num = 0
    /\ results = <<>>
    /\ file_data = <<>>
    /\ idx = 1
    /\ stats_list = <<>>
    /\ printed = <<>>
    /\ exc = NoExc
    /\ out = <<>>
    /\ parsed = <<>>
    /\ last = NoLast
    /\ call \in Calls
    /\ ret = NoRet

Returns(r) ==
    /\ pc = "call"
    /\ ret' = r
    /\ pc' = "returned"
    /\ UNCHANGED <<prog, nfiles, line_num, results, file_data, idx,
                   stats_list, printed, exc, out, parsed, last, call>>

CallClassifierB ==
    /\ call.fn = "determine_strandedness"
    /\ Returns(Ret(determine_strandedness(call.total, call.diff, call.ratio)))

CallClassifierA ==
    /\ call.fn = "bin_determine_strandedness"
    /\ Returns(Ret(bin_determine_strandedness(call.total, call.diff)))

CallMetric ==
    /\ call.fn \in MetricFns
    /\ Returns(ApplyMetric(call.fn, call.fwd, call.rev))

CallAnalyze ==
    /\ call.fn \in AnalyzeFns
    /\ Returns(ApplyAnalyze(call.fn, call.fwd, call.rev))

NextFn ==
    \/ CallClassifierB
    \/ CallClassifierA
    \/ CallMetric
    \/ CallAnalyze

SpecFn == InitFn /\ [][NextFn]_vars

Returned(g) == pc = "returned" /\ call.fn = g


(***************************************************************************)
(* Properties                                                              *)
(***************************************************************************)
\* a float of FloatVals counted in units of 10^-8
Hundredmillionths(x) == x.n * (100000000 \div x.d)

\* C1: both classifier variants return 'insufficient-data' if and only if
\* total <= 3000, whatever the difference and the ratio are (NaN and the
\* infinities included).
C1_TotalGate ==
    (pc = "returned" /\ call.fn \in ClassifierFns) =>
        ((ret.v = "insufficient-data") <=> (call.total <= MinTotal))

C1_Witness ==
    /\ Returned("determine_strandedness")
    /\ call.total = MinTotal
    /\ call.diff = FromInt(2)
    /\ call.ratio = PosInf
    /\ ret.v = "insufficient-data"

C3_VariantB ==
    (Returned("determine_strandedness") /\ call.total > MinTotal) =>
        ret.v = IF call.diff = NegInf
                   \/ (IsNum(call.diff) /\ call.diff.n <= call.diff.d)
                    THEN "fr-unstranded"
                ELSE IF call.ratio = PosInf
                        \/ (IsNum(call.ratio) /\ call.ratio.n > call.ratio.d)
                    THEN "fr-firststrand"
                ELSE "fr-secondstrand"

C3_Witness ==
    /\ Returned("determine_strandedness")
    /\ call.total = BigCount
    /\ call.diff = One
    /\ call.ratio = PosInf
    /\ ret.v = "fr-unstranded"

\* whether NaN went to the classifier for bundle b: the difference and,
\* where the classifier takes one, the ratio (the count-based bundle does
\* not keep the difference, which is NaN exactly for a total of 0)
HandedNaN(b) ==
    IF "relative_diff" \in DOMAIN b
    THEN \/ IsNaN(b.relative_diff)
         \/ ("f2r_ratio" \in DOMAIN b /\ IsNaN(b.f2r_ratio))
    ELSE b.fwd + b.rev = 0

C5_Total ==
    (pc = "returned" /\ call.fn \in MetricFns \cup AnalyzeFns) => ret.ok

C5_Witness ==
    /\ Returned("analyze_strand_bias")
    /\ call.fwd = 0
    /\ call.rev = 0
    /\ ret.ok
    /\ IsNaN(ret.v.chi2)

\* C6: every triple the parser hands on to the analysis has non-negative
\* counts.
C6_NonNegativeCounts ==
    \A i \in DOMAIN file_data :
        file_data[i].fwd >= 0 /\ file_data[i].rev >= 0

\* the number of fields the parser of program p reads from a line
FieldsRead(p) == IF p = "A" THEN 8 ELSE 7

\* C7: a non-blank line with fewer fields than the parser reads from it
\* raises the ValueError 'File format error on line N', which is reported.
C7_ShortLineIsFormatError ==
    (last.read /\ Len(last.parts) > 0 /\ Len(last.parts) < FieldsRead(prog))
        => /\ ~last.res.ok
           /\ last.res.v = FormatError(last.line_num)
           /\ pc # "crashed"
           /\ printed # <<>>
           /\ printed[Len(printed)] = FormatError(last.line_num)

NameOf(b) == IF "filename" \in DOMAIN b THEN b.filename ELSE b.reads_count

\* C8: the list handed to the formatter holds one bundle per parsed record,
\* in the order of the records, and the table holds the header and then one
\* row per bundle in the same order.
C8_OutputOrder ==
    /\ pc \in {"format", "done"} =>
          /\ Len(stats_list) = Len(parsed)
          /\ \A i \in DOMAIN stats_list :
                /\ stats_list[i].fwd = parsed[i].fwd
                /\ stats_list[i].rev = parsed[i].rev
                /\ NameOf(stats_list[i]) = parsed[i].name
    /\ pc = "done" =>
          /\ Len(out) = Len(stats_list) + 1
          /\ \A i \in DOMAIN stats_list :
                /\ out[i + 1][1].v = NameOf(stats_list[i])
                /\ out[i + 1][3].v = stats_list[i].fwd
                /\ out[i + 1][4].v = stats_list[i].rev

\* C9: for fwd + rev > 0 the two proportions lie in [0, 1] and add up to
\* exactly 1.0; for fwd + rev = 0 both are 0.0.
C9_ProportionsSum ==
    (pc = "returned"
        /\ call.fn \in {"compute_proportions", "bin_compute_proportions"}) =>
        /\ ret.ok
        /\ IF call.fwd + call.rev > 0
           THEN /\ FEq(FAdd(ret.v[1], ret.v[2]), One)
                /\ FLe(Zero, ret.v[1]) /\ FLe(ret.v[1], One)
                /\ FLe(Zero, ret.v[2]) /\ FLe(ret.v[2], One)
           ELSE ret.v[1] = Zero /\ ret.v[2] = Zero

C9_Witness ==
    /\ Returned("compute_proportions")
    /\ call.fwd = 1
    /\ call.rev = 2
    /\ ret.v[1] = Num(1, 3)
    /\ ret.v[2] = Num(2, 3)

\* C10: for fwd + rev > 0 the unsigned difference of src/check_strand.py is
\* the absolute value of the signed difference of src/bin/check_strand.py,
\* and the signed difference is positive exactly when fwd > rev.
C10_UnsignedIsAbsSigned ==
    /\ (Returned("compute_relative_difference") /\ call.fwd + call.rev > 0)
          => FEq(ret.v,
                 FAbs(bin_compute_relative_difference(call.fwd, call.rev).v))
    /\ (Returned("bin_compute_relative_difference")
          /\ call.fwd + call.rev > 0)
          => /\ FEq(FAbs(ret.v),
                    compute_relative_difference(call.fwd, call.rev).v)
             /\ FGt(ret.v, Zero) <=> (call.fwd > call.rev)

C10_Witness ==
    /\ Returned("bin_compute_relative_difference")
    /\ call.fwd = 1
    /\ call.rev = 3
    /\ ret.v = FromInt(-1)
    /\ compute_relative_difference(1, 3).v = One

\* the chi-square function named g applied to the exchanged counts
ChiSwapped(g) == ApplyMetric(g, call.rev, call.fwd)

ChiFns == {"compute_chi_test", "compute_chi2_test"}

\* C11 as stated: for all counts, (0, 0) included, the chi2 returned for
\* (f, r) compares equal (==) to the chi2 returned for (r, f).
C11_ChiSymmetricAll ==
    (pc = "returned" /\ call.fn \in ChiFns) =>
        /\ ret.ok
        /\ ChiSwapped(call.fn).ok
        /\ FEq(ret.v[1], ChiSwapped(call.fn).v[1])

\* C11 amended: for f + r > 0 the chi2 returned for (f, r) compares equal to
\* the chi2 returned for (r, f); for (0, 0) both are NaN, which compares
\* unequal to itself.
C11_ChiSymmetric ==
    (pc = "returned" /\ call.fn \in ChiFns) =>
        /\ ret.ok
        /\ ChiSwapped(call.fn).ok
        /\ IF call.fwd + call.rev > 0
           THEN FEq(ret.v[1], ChiSwapped(call.fn).v[1])
           ELSE /\ IsNaN(ret.v[1])
                /\ IsNaN(ChiSwapped(call.fn).v[1])
                /\ ~FEq(ret.v[1], ChiSwapped(call.fn).v[1])

C11_Witness ==
    /\ Returned("compute_chi_test")
    /\ call.fwd = 1
    /\ call.rev = 3
    /\ ret.v[1] = One
    /\ compute_chi_test(3, 1).v[1] = One

\* C13: for every n > 0 the observation (n, n) has relative_diff 0 (unsigned
\* in src/check_strand.py, signed in src/bin/check_strand.py), chi2 0 and
\* p_value 1.0, and for 2n > 3000 analyze_strand_bias labels it
\* 'fr-unstranded' in both files.
C13_Balanced ==
    (pc = "returned"
        /\ call.fn \in {"analyze_strand_bias", "bin_analyze_strand_bias"}
        /\ call.fwd = call.rev /\ call.fwd > 0) =>
        /\ ret.ok
        /\ ret.v.relative_diff = Zero
        /\ ret.v.chi2 = Zero
        /\ ret.v.p_value = One
        /\ (2 * call.fwd > MinTotal) => (ret.v.strandedness = "fr-unstranded")

C13_Witness ==
    /\ Returned("bin_analyze_strand_bias")
    /\ call.fwd = (MinTotal \div 2) + 1
    /\ call.rev = (MinTotal \div 2) + 1
    /\ ret.v.relative_diff = Zero
    /\ ret.v.chi2 = Zero
    /\ ret.v.p_value = One
    /\ ret.v.strandedness = "fr-unstranded"
    /\ analyze_strand_bias(call.fwd, call.rev, StrTok("1M")).v.strandedness
          = "fr-unstranded"

\* the label Variant A is to give the counts f and r
VariantALabel(f, r) ==
    IF f + r <= MinTotal THEN "insufficient-data"
    ELSE IF FLe(Num(2 * Abs(f - r), f + r), UnstrandedA) THEN "fr-unstranded"
    ELSE IF f > r THEN "fr-firststrand"
    ELSE "fr-secondstrand"

C15_DocstringThreshold ==
    (Returned("bin_determine_strandedness") /\ call.total > MinTotal
        /\ IsNum(call.diff)) =>
        ret.v = IF FGt(FAbs(call.diff), One)
                    THEN IF FGt(call.diff, Zero) THEN "fr-firststrand"
                         ELSE "fr-secondstrand"
                ELSE "fr-unstranded"

\* C16: compute_proportions returns (0.0, 0.0, NaN) exactly when
\* fwd + rev = 0; f2r_ratio is +inf exactly when rev = 0 and fwd > 0, and
\* fwd / rev otherwise (0 for fwd = 0 < rev); no call raises.
C16_RatioEdgeCases ==
    Returned("compute_proportions") =>
        /\ ret.ok
        /\ (ret.v = <<Zero, Zero, NaN>>) <=> (call.fwd + call.rev = 0)
        /\ IsNaN(ret.v[3]) <=> (call.fwd + call.rev = 0)
        /\ (ret.v[3] = PosInf) <=> (call.rev = 0 /\ call.fwd > 0)
        /\ (call.rev > 0) =>
              /\ IsNum(ret.v[3])
              /\ ret.v[3].n * call.rev = ret.v[3].d * call.fwd
        /\ (call.fwd = 0 /\ call.rev > 0) => ret.v[3] = Zero

C16_Witness ==
    /\ Returned("compute_proportions")
    /\ call.fwd = 1
    /\ call.rev = 0
    /\ ret.ok
    /\ ret.v = <<One, Zero, PosInf>>

\* the report of a file that was missing or whose parsing raised ValueError
FileFailed(e) ==
    \/ e.type = "FileNotFoundError"
    \/ /\ e.type = "ValueError"
       /\ e.msg \in {"File format error", "invalid literal for int()"}

\* C17: in run_input_file_lists, once a file was missing or its parsing
\* raised ValueError, the function still returns normally, with one
\* 'Error: ...' line per file given up, and the returned list holds, in
\* order, a bundle for every record of every other file and none for the
\* failed file.
C17_FileContainment ==
    (prog \in {"B", "A"}
        /\ \E k \in DOMAIN printed : FileFailed(printed[k])) =>
        /\ pc # "crashed"
        /\ Len(printed) <= nfiles
        /\ pc \in {"format", "done"} =>
              /\ Len(stats_list) = Len(parsed)
              /\ \A i \in DOMAIN stats_list :
                    /\ stats_list[i].fwd = parsed[i].fwd
                    /\ stats_list[i].rev = parsed[i].rev
                    /\ stats_list[i].filename = parsed[i].name

\* C18: in check_strand_step1M.py every bundle the imported
\* analyze_strand_bias returns has every attribute that
\* format_stats_table_step1M reads, so formatting never ends in an
\* AttributeError.
C18_Step1MWellFormed ==
    (prog = "S1") =>
        /\ \A i \in DOMAIN stats_list :
              FullAttrs \subseteq DOMAIN stats_list[i]
        /\ exc.type # "AttributeError"
        /\ (pc = "format" /\ stats_list # <<>>) =>
              format_stats_table_step1M(stats_list).ok

Directional == {"fr-firststrand", "fr-secondstrand"}

\* the labels of Variant B and of Variant A for the counts of the call
LabelB == analyze_strand_bias(call.fwd, call.rev, StrTok("1M")).v.strandedness
LabelA ==
    bin_analyze_strand_bias(call.fwd, call.rev, StrTok("1M")).v.strandedness

\* C19: a directional label of analyze_strand_bias in src/check_strand.py is
\* also the label of analyze_strand_bias in src/bin/check_strand.py; the two
\* say 'insufficient-data' for the same counts; where they differ, Variant B
\* says 'fr-unstranded' and Variant A gives a directional label.
C19_BRefinesA ==
    (pc = "returned"
        /\ call.fn \in {"analyze_strand_bias", "bin_analyze_strand_bias"}) =>
        /\ ret.ok
        /\ ret.v.strandedness =
              IF call.fn = "analyze_strand_bias" THEN LabelB ELSE LabelA
        /\ (LabelB \in Directional) => (LabelA = LabelB)
        /\ (LabelB = "insufficient-data") <=> (LabelA = "insufficient-data")
        /\ (LabelA # LabelB) =>
              (LabelB = "fr-unstranded" /\ LabelA \in Directional)

C19_Witness ==
    /\ Returned("analyze_strand_bias")
    /\ call.fwd = 1500
    /\ call.rev = 1612
    /\ ret.v.strandedness = "fr-unstranded"
    /\ LabelA = "fr-secondstrand"
    /\ analyze_strand_bias(1, BigCount, StrTok("1M")).v.strandedness
          = "fr-secondstrand"
    /\ bin_analyze_strand_bias(1, BigCount, StrTok("1M")).v.strandedness
          = "fr-secondstrand"

\* C20: for f + r > 3000 analyze_strand_bias in src/check_strand.py says
\* 'fr-firststrand' exactly when f > 3r, 'fr-secondstrand' exactly when
\* r > 3f, and 'fr-unstranded' otherwise, f = 3r and r = 3f included;
\* (f, 0) is 'fr-firststrand' and (0, r) is 'fr-secondstrand'.
C20_VariantBIntegers ==
    (Returned("analyze_strand_bias") /\ call.fwd + call.rev > MinTotal) =>
        /\ ret.ok
        /\ ret.v.strandedness =
              IF call.fwd > 3 * call.rev THEN "fr-firststrand"
              ELSE IF call.rev > 3 * call.fwd THEN "fr-secondstrand"
              ELSE "fr-unstranded"
        /\ (call.rev = 0) => (ret.v.strandedness = "fr-firststrand")
        /\ (call.fwd = 0) => (ret.v.strandedness = "fr-secondstrand")

C20_Witness ==
    /\ Returned("analyze_strand_bias")
    /\ call.fwd = MinTotal
    /\ call.rev = MinTotal \div 3
    /\ ret.v.relative_diff = One
    /\ ret.v.f2r_ratio = FromInt(3)
    /\ ret.v.strandedness = "fr-unstranded"
    /\ analyze_strand_bias(MinTotal + 1, 0, StrTok("1M")).v.strandedness
          = "fr-firststrand"
    /\ analyze_strand_bias(MinTotal \div 3, MinTotal + 1,
                           StrTok("1M")).v.strandedness = "fr-secondstrand"

=============================================================================
